---- MODULE Spec2Model ----
(***************************************************************************)
(* Model of tweet_bot.py: a run-to-completion script that authenticates,   *)
(* reads tweets.csv, selects the first unposted row whose date_to_post has *)
(* arrived, posts it through the Twitter client and rewrites the CSV with  *)
(* the row marked posted.  One run is main() -> TwitterBot.run(); runs are *)
(* started one after the other by an external scheduler.                   *)
(***************************************************************************)
EXTENDS Integers, Sequences, FiniteSets, TLC

(* ------------------------------ bounds -------------------------------- *)
MaxRows == 2
MaxId == 2
MaxDay == 1
MaxTod == 1
MaxRuns == 2
MaxOver == 2

(* ------------------------- program constants -------------------------- *)
TweetLimit == 280
TruncateAt == 277

(* ------------------------- raw CSV field values ----------------------- *)
\* Decimal spellings of the ids; any other string is not an integer literal.
IdStrings == <<"1", "2", "3", "4", "5", "6", "7", "8", "9">>

\* The id column as text: an integer literal, or the empty string (a row
\* whose id field is empty or absent).
RawIds == {IdStrings[n] : n \in 1..MaxId} \cup {""}

\* The posted column as text.
PostedVals == {"True", "true", "False"}

\* The text column; a text is a sequence of characters.
Texts == {<<"a">>}

\* The date_to_post column.  kind "date"  : YYYY-MM-DD, no time, no offset;
\*                           kind "naive" : date and time, no offset;
\*                           kind "aware" : date and time with Z / +00:00;
\*                           kind "bad"   : not an ISO-8601 string.
DateVals ==
    {[kind |-> "bad", day |-> 0, tod |-> 0]}
    \cup {[kind |-> "date", day |-> d, tod |-> 0] : d \in 0..MaxDay}
    \cup {[kind |-> k, day |-> d, tod |-> t] :
            k \in {"naive", "aware"}, d \in 0..MaxDay, t \in 0..MaxTod}

\* Whether the row has more fields than the header names: csv.DictReader
\* keeps the surplus under a key the writer's fieldnames do not list.
ExtraVals == {FALSE}

Rows == [id : RawIds, text : Texts, date_to_post : DateVals, posted : PostedVals,
         extra : ExtraVals]

Catalogs == UNION {[1..n -> Rows] : n \in 0..MaxRows}

\* Catalogs whose rows may carry surplus fields (a header with a column more
\* than id, text, date_to_post, posted, or single rows with a field more).
RowsExtra ==
    [id : {IdStrings[n] : n \in 1..MaxId}, text : Texts,
     date_to_post : {[kind |-> "aware", day |-> 0, tod |-> t] : t \in 0..MaxTod},
     posted : {"True", "False"}, extra : BOOLEAN]

CatalogsExtra == UNION {[1..n -> RowsExtra] : n \in 1..MaxRows}

\* Texts of the lengths around the limit of post_tweet, over three
\* characters of which one is the dot of the truncation marker.
Letters == <<"a", "b", ".">>

TextOf(n, k) == [i \in 1..n |-> Letters[((i + k) % 3) + 1]]

LongTexts ==
    {TextOf(n, k) : n \in (TweetLimit - MaxOver)..(TweetLimit + MaxOver),
                    k \in 0..2}

CatalogsText ==
    {<<[id |-> IdStrings[1], text |-> x,
        date_to_post |-> [kind |-> "aware", day |-> 0, tod |-> 0],
        posted |-> "False", extra |-> FALSE]>> : x \in LongTexts}

\* An instant of the UTC clock: day number and time-of-day slot.
Instants == [day : 0..MaxDay, tod : 0..MaxTod]

TodPerDay == MaxTod + 1

Stamp(day, tod) == day * TodPerDay + tod

(* --------------------------- pure functions --------------------------- *)
\* int(row['id'])
int(s) ==
    IF \E n \in 1..Len(IdStrings) : IdStrings[n] = s
    THEN [exc |-> "", val |-> CHOOSE n \in 1..Len(IdStrings) : IdStrings[n] = s]
    ELSE [exc |-> "ValueError", val |-> 0]

\* str.lower() on the spellings of the posted column
lower(s) ==
    CASE s = "True" -> "true"
      [] s = "TRUE" -> "true"
      [] s = "False" -> "false"
      [] s = "FALSE" -> "false"
      [] OTHER -> s

\* row.get('posted', 'False').lower() == 'true'
\* (posted_flag_exact is the test without the lower-casing.)
posted_flag_exact(s) == s = "true"

posted_flag(s) == lower(s) = "true"

\* datetime.fromisoformat(s.replace('Z', '+00:00')): a ValueError, a naive
\* datetime (date-only strings parse to midnight) or an aware UTC datetime.
fromisoformat(d) ==
    CASE d.kind = "bad" -> [exc |-> "ValueError", aware |-> FALSE, inst |-> 0]
      [] d.kind = "date" -> [exc |-> "", aware |-> FALSE, inst |-> Stamp(d.day, 0)]
      [] d.kind = "naive" -> [exc |-> "", aware |-> FALSE, inst |-> Stamp(d.day, d.tod)]
      [] d.kind = "aware" -> [exc |-> "", aware |-> TRUE, inst |-> Stamp(d.day, d.tod)]

\* tweet_date <= current_time, current_time being aware: comparing a naive
\* datetime with it raises TypeError.  (date_le_strict and date_le_always
\* are the comparison written as < and as a test that always passes.)
date_le_strict(dt, t) ==
    IF ~dt.aware THEN [exc |-> "TypeError", le |-> FALSE]
    ELSE [exc |-> "", le |-> dt.inst < t]

date_le_always(dt, t) ==
    IF ~dt.aware THEN [exc |-> "TypeError", le |-> FALSE]
    ELSE [exc |-> "", le |-> TRUE]

date_le(dt, t) ==
    IF ~dt.aware THEN [exc |-> "TypeError", le |-> FALSE]
    ELSE [exc |-> "", le |-> dt.inst <= t]

\* The body of post_tweet before the client call: texts over the limit are
\* cut to TruncateAt characters followed by "...".
\* (truncate_at_limit cuts at the limit itself.)
truncate_at_limit(text) ==
    IF Len(text) > TweetLimit
    THEN SubSeq(text, 1, TweetLimit) \o <<".", ".", ".">>
    ELSE text

truncate(text) ==
    IF Len(text) > TweetLimit
    THEN SubSeq(text, 1, TruncateAt) \o <<".", ".", ".">>
    ELSE text

\* authenticate lines 57-67: True when get_me() answers with user data, False
\* when it answers without or raises.
\* (authenticate_lenient takes any answer for a success.)
authenticate_lenient(me) == me \in {"data", "nodata"}

authenticate(me) == me = "data"

\* post_tweet lines 148-166: (True, id) when the response carries data,
\* (False, None) when it does not or when create_tweet raised.
\* (post_tweet_ok_lenient takes any response for a success.)
post_tweet_ok_lenient(resp) == resp \in {"data", "nodata"}

post_tweet_ok(resp) == resp = "data"

\* main lines 203-214: sys.exit(0) when run() returned True, sys.exit(1)
\* when it returned False or an exception reached main.
exit_status(returned, raised) == IF raised = "" /\ returned THEN 0 ELSE 1

(* ------------------------------- state -------------------------------- *)
VARIABLES
    csv,         \* data rows of tweets.csv, in file order
    exists,      \* whether tweets.csv exists
    now,         \* the UTC clock
    pc,          \* position of the current run: idle, auth, select, post,
                 \* update, write
    next_tweet,  \* run(): the tweet returned by get_next_scheduled_tweet
    update_rows, \* update_csv_posted_status(): the rows read, to write back
    cur,         \* observations of the run in progress
    hist         \* observations of the completed runs, oldest first

vars == <<csv, exists, now, pc, next_tweet, update_rows, cur, hist>>

NoTweet == [idx |-> 0, id |-> 0, text |-> <<>>]

\* What is observed of one run: the clock it read, the file before and after,
\* how far it got, how often it opened the file for reading and for writing,
\* what it selected, what it handed to the sender, and the exit status of
\* the process.
NewRun ==
    [now |-> now, before |-> csv, existed |-> exists, after |-> csv,
     auth |-> FALSE, reads |-> 0, writes |-> 0, selected |-> 0, raised |-> "",
     calls |-> 0, sentText |-> <<>>, sendOk |-> FALSE, writeFault |-> FALSE,
     outcome |-> "", exit |-> 0]

(* --------------------------- read_tweets_from_csv --------------------- *)
\* The rows appended to `tweets` before the loop ends or a row raises; the
\* try block encloses the whole loop, so a raising row ends the load.
RECURSIVE LoadRows(_, _)
LoadRows(rows, i) ==
    IF i > Len(rows) THEN <<>>
    ELSE IF int(rows[i].id).exc # "" THEN <<>>
    ELSE <<[id |-> int(rows[i].id).val,
            text |-> rows[i].text,
            date_to_post |-> rows[i].date_to_post,
            posted |-> posted_flag(rows[i].posted)]>> \o LoadRows(rows, i + 1)

read_tweets_from_csv(file, present) ==
    IF ~present THEN <<>> ELSE LoadRows(file, 1)

(* ------------------------- get_next_scheduled_tweet ------------------- *)
\* The scan of lines 119-135 from position i: the index of the returned
\* tweet (0 for None), or the exception that leaves the function.
\* (Scan_last returns the last due tweet instead of the first.)
Scan_last(tweets, i, t) ==
    LET due == {j \in i..Len(tweets) :
                   /\ ~tweets[j].posted
                   /\ fromisoformat(tweets[j].date_to_post).exc = ""
                   /\ fromisoformat(tweets[j].date_to_post).aware
                   /\ fromisoformat(tweets[j].date_to_post).inst <= t}
    IN  IF due = {} THEN [exc |-> "", idx |-> 0]
        ELSE [exc |-> "", idx |-> CHOOSE j \in due : \A m \in due : m <= j]

RECURSIVE Scan(_, _, _)
Scan(tweets, i, t) ==
    IF i > Len(tweets) THEN [exc |-> "", idx |-> 0]
    ELSE IF tweets[i].posted THEN Scan(tweets, i + 1, t)
    ELSE LET dt == fromisoformat(tweets[i].date_to_post)
         IN  IF dt.exc # "" THEN Scan(tweets, i + 1, t)
             ELSE LET c == date_le(dt, t)
                  IN  IF c.exc # "" THEN [exc |-> c.exc, idx |-> 0]
                      ELSE IF c.le THEN [exc |-> "", idx |-> i]
                      ELSE Scan(tweets, i + 1, t)

get_next_scheduled_tweet(file, present, t) ==
    Scan(read_tweets_from_csv(file, present), 1, t)

(* ------------------------- update_csv_posted_status ------------------- *)
\* The read loop of lines 95-100: the rows to write back, or the exception
\* raised by int(row['id']) on some row.
UpdateRaises(file) == \E i \in 1..Len(file) : int(file[i].id).exc # ""

\* (MarkedRows_all marks every row.)
MarkedRows_all(file, tweet_id) ==
    [i \in 1..Len(file) |-> [file[i] EXCEPT !.posted = "True"]]

MarkedRows(file, tweet_id) ==
    [i \in 1..Len(file) |->
        IF int(file[i].id).val = tweet_id
        THEN [file[i] EXCEPT !.posted = "True"]
        ELSE file[i]]

\* writer.writerows(tweets), lines 105-107: the rows are written in order and
\* a row with a field outside fieldnames raises ValueError; Writable is the
\* number of rows written before that.
Writable(rows) ==
    IF \E i \in 1..Len(rows) : rows[i].extra
    THEN (CHOOSE i \in 1..Len(rows) :
              rows[i].extra /\ \A j \in 1..(i - 1) : ~rows[j].extra) - 1
    ELSE Len(rows)

(* ------------------------------- actions ------------------------------ *)
Init ==
    /\ csv \in Catalogs
    /\ exists \in BOOLEAN
    /\ (~exists => csv = <<>>)
    /\ now \in Instants
    /\ pc = "idle"
    /\ next_tweet = NoTweet
    /\ update_rows = <<>>
    /\ cur = [NewRun EXCEPT !.outcome = "none"]
    /\ hist = <<>>

\* A catalog with surplus fields, and a one-row catalog with a long text.
InitExtra ==
    /\ csv \in CatalogsExtra
    /\ exists = TRUE
    /\ now \in Instants
    /\ pc = "idle"
    /\ next_tweet = NoTweet
    /\ update_rows = <<>>
    /\ cur = [NewRun EXCEPT !.outcome = "none"]
    /\ hist = <<>>

InitText ==
    /\ csv \in CatalogsText
    /\ exists = TRUE
    /\ now \in {t \in Instants : t.day = MaxDay}
    /\ pc = "idle"
    /\ next_tweet = NoTweet
    /\ update_rows = <<>>
    /\ cur = [NewRun EXCEPT !.outcome = "none"]
    /\ hist = <<>>

\* The clock advances between runs.
Tick ==
    /\ pc = "idle"
    /\ \E t \in Instants :
          /\ Stamp(t.day, t.tod) > Stamp(now.day, now.tod)
          /\ now' = t
    /\ UNCHANGED <<csv, exists, pc, next_tweet, update_rows, cur, hist>>

\* main(): bot = TwitterBot(); bot.run() begins.
StartRun ==
    /\ pc = "idle"
    /\ Len(hist) < MaxRuns
    /\ pc' = "auth"
    /\ cur' = NewRun
    /\ next_tweet' = NoTweet
    /\ update_rows' = <<>>
    /\ UNCHANGED <<csv, exists, now, hist>>

\* The run ends: main() exits with status 0 when run() returned True and
\* with status 1 when it returned False or raised.
Finish(r, file) ==
    /\ pc' = "idle"
    /\ hist' = Append(hist, [r EXCEPT !.after = file])

\* run() lines 172-175 with authenticate(): get_me() answers with user data,
\* answers without, or raises.
Authenticate ==
    /\ pc = "auth"
    /\ \E me \in {"data", "nodata", "exception"} :
          IF authenticate(me)
          THEN /\ pc' = "select"
               /\ cur' = [cur EXCEPT !.auth = (me = "data")]
               /\ UNCHANGED <<csv, exists, now, next_tweet, update_rows, hist>>
          ELSE /\ Finish([cur EXCEPT !.outcome = "auth_failed",
                                      !.exit = exit_status(FALSE, "")], csv)
               /\ UNCHANGED <<csv, exists, now, next_tweet, update_rows, cur>>

\* run() lines 177-185 with get_next_scheduled_tweet().
GetNext ==
    /\ pc = "select"
    /\ LET t == Stamp(now.day, now.tod)
           r == get_next_scheduled_tweet(csv, exists, t)
           loaded == read_tweets_from_csv(csv, exists)
           c == [cur EXCEPT !.reads = @ + 1]
       IN  IF r.exc # ""
           THEN /\ Finish([c EXCEPT !.raised = r.exc, !.outcome = "crashed",
                                    !.exit = exit_status(FALSE, r.exc)], csv)
                /\ UNCHANGED <<csv, exists, now, next_tweet, update_rows, cur>>
           ELSE IF r.idx = 0
           THEN /\ Finish([c EXCEPT !.outcome = "nothing_due",
                                    !.exit = exit_status(TRUE, "")], csv)
                /\ UNCHANGED <<csv, exists, now, next_tweet, update_rows, cur>>
           ELSE /\ pc' = "post"
                /\ next_tweet' = [idx |-> r.idx, id |-> loaded[r.idx].id,
                                  text |-> loaded[r.idx].text]
                /\ cur' = [c EXCEPT !.selected = r.idx]
                /\ UNCHANGED <<csv, exists, now, update_rows, hist>>

\* run() lines 187-197 with post_tweet(): create_tweet answers with data,
\* answers without, or raises one of the tweepy errors.
PostTweet ==
    /\ pc = "post"
    /\ \E resp \in {"data", "nodata", "TooManyRequests", "Forbidden",
                    "BadRequest", "Exception"} :
          LET c == [cur EXCEPT !.calls = @ + 1,
                               !.sentText = truncate(next_tweet.text),
                               !.sendOk = (resp = "data")]
          IN  IF post_tweet_ok(resp)
              THEN /\ pc' = "update"
                   /\ cur' = c
                   /\ UNCHANGED <<csv, exists, now, next_tweet, update_rows, hist>>
              ELSE /\ Finish([c EXCEPT !.outcome = "send_failed",
                                       !.exit = exit_status(FALSE, "")], csv)
                   /\ UNCHANGED <<csv, exists, now, next_tweet, update_rows, cur>>

\* run() lines 190-192 with update_csv_posted_status() lines 93-103: the
\* rows are read and marked, then the file is opened for writing, which
\* empties it.  An exception of the read or of the open is caught and logged
\* (line 111), the file is as it was and run() returns True.
UpdateCsv ==
    /\ pc = "update"
    /\ \E io \in {"ok", "OSError"} :
          LET c == [cur EXCEPT !.reads = @ + 1]
          IN  IF ~exists \/ UpdateRaises(csv)
              THEN /\ Finish([c EXCEPT !.outcome = "posted",
                                       !.exit = exit_status(TRUE, "")], csv)
                   /\ UNCHANGED <<csv, update_rows, cur>>
              ELSE IF io = "OSError"
              THEN /\ Finish([c EXCEPT !.writes = @ + 1, !.writeFault = TRUE,
                                       !.outcome = "posted",
                                       !.exit = exit_status(TRUE, "")], csv)
                   /\ UNCHANGED <<csv, update_rows, cur>>
              ELSE /\ update_rows' = MarkedRows(csv, next_tweet.id)
                   /\ csv' = <<>>
                   /\ pc' = "write"
                   /\ cur' = [c EXCEPT !.writes = @ + 1]
                   /\ UNCHANGED hist
    /\ UNCHANGED <<exists, now, next_tweet>>

\* update_csv_posted_status() lines 104-112 and run() lines 193-194: the
\* header and the rows are written and the file is closed.  The ValueError
\* of a row with surplus fields, or an OSError of a write, is caught and
\* logged with the file holding the rows written until then; run() returns
\* True in every case.
WriteRows ==
    /\ pc = "write"
    /\ \E io \in {"ok", "OSError"} :
          \E k \in 0..Writable(update_rows) :
              /\ io = "ok" => k = Writable(update_rows)
              /\ io = "OSError" => k < Len(update_rows)
              /\ csv' = SubSeq(update_rows, 1, k)
              /\ Finish([cur EXCEPT !.writeFault = (io = "OSError"),
                                    !.outcome = "posted",
                                    !.exit = exit_status(TRUE, "")],
                        SubSeq(update_rows, 1, k))
    /\ UNCHANGED <<exists, now, next_tweet, update_rows, cur>>

\* The process is killed between the open of line 103 and the close of the
\* file: the file holds the rows that reached it.
Crash ==
    /\ pc = "write"
    /\ \E k \in 0..Writable(update_rows) :
          /\ csv' = SubSeq(update_rows, 1, k)
          /\ Finish([cur EXCEPT !.outcome = "killed", !.exit = 137],
                    SubSeq(update_rows, 1, k))
    /\ UNCHANGED <<exists, now, next_tweet, update_rows, cur>>

Next ==
    \/ Tick
    \/ StartRun
    \/ Authenticate
    \/ GetNext
    \/ PostTweet
    \/ UpdateCsv
    \/ WriteRows
    \/ Crash

Spec == Init /\ [][Next]_vars

SpecExtra == InitExtra /\ [][Next]_vars

SpecText == InitText /\ [][Next]_vars

(* ====================== vocabulary of the properties =================== *)
\* What the stored row says, read off the file and not through the program.
StoredSent(r) == r.posted \in {"True", "true", "TRUE"}

HasId(r) == r.id # ""

DateOnly(r) == r.date_to_post.kind = "date"

FullStamp(r) == r.date_to_post.kind \in {"naive", "aware"}

UtcStamp(r) == r.date_to_post.kind = "aware"

\* The scheduled instant is at or before t / after t, by day then time-of-day.
AtOrBefore(d, t) == d.day < t.day \/ (d.day = t.day /\ d.tod <= t.tod)

\* The matching rule as the specification words it: a date-only value matches
\* on its day, a full timestamp matches on its day from its time-of-day on.
SpecEligible(r, t) ==
    /\ HasId(r)
    /\ ~StoredSent(r)
    /\ \/ DateOnly(r) /\ r.date_to_post.day = t.day
       \/ FullStamp(r) /\ r.date_to_post.day = t.day /\ r.date_to_post.tod <= t.tod

\* An unsent UTC timestamp of an earlier day: the rule as worded skips it.
Backfill(r, t) ==
    HasId(r) /\ ~StoredSent(r) /\ UtcStamp(r) /\ r.date_to_post.day < t.day

EligibleSet(file, t) == {i \in 1..Len(file) : SpecEligible(file[i], t)}

NoBackfill(file, t) == \A i \in 1..Len(file) : ~Backfill(file[i], t)

FirstOf(S) == CHOOSE i \in S : \A j \in S : i <= j

Done == 1..Len(hist)

\* The observations of every run, the one in progress included.
Runs == {hist[i] : i \in Done} \cup (IF pc = "idle" THEN {} ELSE {cur})

\* Every row up to position j carries an id.
IdsUpTo(file, j) == \A m \in 1..j : HasId(file[m])

\* Row j is an unsent post whose UTC timestamp is at or before t.
DueUtc(file, j, t) ==
    /\ HasId(file[j]) /\ ~StoredSent(file[j]) /\ UtcStamp(file[j])
    /\ AtOrBefore(file[j].date_to_post, t)

(* ------------------------------- C1 ----------------------------------- *)
\* C1: a post whose send was confirmed in one run is recorded as sent in the
\* stored catalog when that run ends and is not handed to the sender by any
\* later run (stated for runs whose file write met no I/O error).
C1_NeverResent ==
    \A i \in Done :
        (hist[i].sendOk /\ ~hist[i].writeFault /\ hist[i].outcome = "posted") =>
            /\ hist[i].selected <= Len(hist[i].after)
            /\ StoredSent(hist[i].after[hist[i].selected])
            /\ \A k \in Done :
                  (k > i /\ hist[k].calls > 0) => hist[k].selected # hist[i].selected

(* ------------------------------- C2 ----------------------------------- *)
\* C2: when several unsent posts are eligible at the instant of an
\* authenticated run, the run calls the sender exactly once and the post it
\* hands over is the first eligible one in file order.
C2_FirstOfSeveral ==
    \A i \in Done :
        LET h == hist[i]
            E == EligibleSet(h.before, h.now)
        IN  (h.auth /\ Cardinality(E) >= 2 /\ NoBackfill(h.before, h.now)) =>
                (h.calls = 1 /\ h.selected = FirstOf(E))

(* ------------------------------- C3 ----------------------------------- *)
\* The scheduled instant of row j of run h arrived after run h read the
\* clock and by the time run k read it.
BecameDue(h, k, j) ==
    /\ UtcStamp(h.before[j])
    /\ ~AtOrBefore(h.before[j].date_to_post, h.now)
    /\ AtOrBefore(h.before[j].date_to_post, k.now)

\* C3 as claimed: a failed sender call ends the run with a nonzero status and
\* an unmodified catalog, and the next authenticated run selects the same post.
C3_Original ==
    \A i \in Done :
        (hist[i].calls = 1 /\ ~hist[i].sendOk) =>
            /\ hist[i].exit # 0
            /\ hist[i].after = hist[i].before
            /\ (i + 1 \in Done /\ hist[i + 1].auth) =>
                  hist[i + 1].selected = hist[i].selected

\* C3 (amended): a failed sender call ends the run with a nonzero status and
\* an unmodified catalog; the post stays due, and the next authenticated run
\* selects it again unless a post earlier in file order became due in the
\* meantime, in which case it selects that earlier post.
C3_SendFailure ==
    \A i \in Done :
        (hist[i].calls = 1 /\ ~hist[i].sendOk) =>
            /\ hist[i].exit # 0
            /\ hist[i].after = hist[i].before
            /\ (i + 1 \in Done /\ hist[i + 1].auth) =>
                  /\ hist[i + 1].before = hist[i].before
                  /\ AtOrBefore(hist[i].before[hist[i].selected].date_to_post,
                                hist[i + 1].now)
                  /\ \/ hist[i + 1].selected = hist[i].selected
                     \/ /\ hist[i + 1].selected \in 1..(hist[i].selected - 1)
                        /\ BecameDue(hist[i], hist[i + 1], hist[i + 1].selected)

\* A send failed, and the next run selected the same post and called the sender.
C3_Witness ==
    \E i \in Done :
        /\ hist[i].calls = 1 /\ ~hist[i].sendOk
        /\ i + 1 \in Done
        /\ hist[i + 1].selected = hist[i].selected
        /\ hist[i + 1].calls = 1

(* ------------------------------- C4 ----------------------------------- *)
\* C4: when exactly one post is eligible at the instant of an authenticated
\* run, the run hands that post to the sender exactly once, and once the send
\* is confirmed the post's stored sent flag is true after the run.
C4_ExactlyOne ==
    \A i \in Done :
        LET h == hist[i]
            E == EligibleSet(h.before, h.now)
        IN  (h.auth /\ Cardinality(E) = 1 /\ NoBackfill(h.before, h.now)) =>
                /\ h.calls = 1
                /\ h.selected = FirstOf(E)
                /\ (h.sendOk /\ ~h.writeFault /\ h.outcome = "posted") =>
                      /\ FirstOf(E) <= Len(h.after)
                      /\ StoredSent(h.after[FirstOf(E)])

C6_DateOnlyToday ==
    \A i \in Done :
        LET h == hist[i]
            E == EligibleSet(h.before, h.now)
        IN  (/\ h.auth
             /\ E # {}
             /\ DateOnly(h.before[FirstOf(E)])
             /\ IdsUpTo(h.before, FirstOf(E))
             /\ NoBackfill(h.before, h.now)) =>
                h.selected = FirstOf(E)

(* ------------------------------- C7 ----------------------------------- *)
\* C7: a post with a full timestamp on today's date whose time-of-day is
\* later than the instant of the run is not selected by that run, hence not
\* handed to the sender.
C7_NotBeforeTime ==
    \A h \in Runs :
        \A j \in 1..Len(h.before) :
            (/\ FullStamp(h.before[j])
             /\ h.before[j].date_to_post.day = h.now.day
             /\ h.before[j].date_to_post.tod > h.now.tod) =>
                h.selected # j

\* A run passed over an unsent post stamped later today and sent the post
\* after it.
C7_Witness ==
    \E i \in Done :
        /\ Len(hist[i].before) >= 2
        /\ HasId(hist[i].before[1]) /\ ~StoredSent(hist[i].before[1])
        /\ UtcStamp(hist[i].before[1])
        /\ hist[i].before[1].date_to_post.day = hist[i].now.day
        /\ hist[i].before[1].date_to_post.tod > hist[i].now.tod
        /\ hist[i].selected = 2
        /\ hist[i].calls = 1

(* ------------------------------- C8 ----------------------------------- *)
\* C8: a post whose stored sent flag is true is not selected by any run,
\* hence not handed to the sender, whatever its schedule and its position.
C8_SentNeverSelected ==
    \A h \in Runs :
        \A j \in 1..Len(h.before) :
            StoredSent(h.before[j]) => h.selected # j

\* A run passed over a sent post whose instant had arrived and sent the post
\* after it.
C8_Witness ==
    \E i \in Done :
        /\ Len(hist[i].before) >= 2
        /\ HasId(hist[i].before[1]) /\ StoredSent(hist[i].before[1])
        /\ UtcStamp(hist[i].before[1])
        /\ AtOrBefore(hist[i].before[1].date_to_post, hist[i].now)
        /\ hist[i].selected = 2
        /\ hist[i].calls = 1

(* ------------------------------- C9 ----------------------------------- *)
\* C9: when no post is eligible at the instant of an authenticated run, the
\* run reports that nothing is due, exits with status 0, does not call the
\* sender and leaves the catalog as it was.
C9_NothingDue ==
    \A i \in Done :
        LET h == hist[i]
        IN  (/\ h.auth
             /\ EligibleSet(h.before, h.now) = {}
             /\ NoBackfill(h.before, h.now)) =>
                /\ h.outcome = "nothing_due"
                /\ h.exit = 0
                /\ h.calls = 0
                /\ h.after = h.before

(* ------------------------------- C10 ---------------------------------- *)
\* Row j is a bad record: it lacks its id or its scheduled value is malformed.
BadRecord(r) == ~HasId(r) \/ r.date_to_post.kind = "bad"

\* C10: a bad record does not keep the records after it from being
\* considered: in a run that completes selection, an unsent well-formed post
\* whose UTC instant has arrived is selected unless a post before it is.
C10_BadRowSkipped ==
    \A i \in Done :
        LET h == hist[i]
        IN  (h.auth /\ h.raised = "") =>
                \A j \in 1..Len(h.before) :
                    DueUtc(h.before, j, h.now) => h.selected \in 1..j

(* ------------------------------- C11 ---------------------------------- *)
\* The catalog of run h with every record of the sent post's id marked sent.
PostUpdate(h) ==
    [j \in 1..Len(h.before) |->
        IF h.before[j].id = h.before[h.selected].id
        THEN [h.before[j] EXCEPT !.posted = "True"]
        ELSE h.before[j]]

\* C11: when the process is killed during the write of the catalog, the
\* stored catalog is the complete catalog of before the update or the
\* complete updated one, never an empty or truncated one.
C11_AtomicWrite ==
    \A i \in Done :
        hist[i].outcome = "killed" =>
            hist[i].after \in {hist[i].before, PostUpdate(hist[i])}

(* ------------------------------- C12 ---------------------------------- *)
\* C12: when the write of the catalog fails after a confirmed send, the
\* stored catalog keeps its content of before the update with the sent post
\* still unsent, and the next authenticated run selects that post again
\* (or a post before it that became due in the meantime).
C12_WriteFailure ==
    \A i \in Done :
        (hist[i].sendOk /\ hist[i].writeFault) =>
            /\ hist[i].after = hist[i].before
            /\ ~StoredSent(hist[i].after[hist[i].selected])
            /\ (i + 1 \in Done /\ hist[i + 1].auth) =>
                  \/ hist[i + 1].selected = hist[i].selected
                  \/ /\ hist[i + 1].selected \in 1..(hist[i].selected - 1)
                     /\ BecameDue(hist[i], hist[i + 1], hist[i + 1].selected)

(* ------------------------------- C13 ---------------------------------- *)
\* C13: an authenticated run that finds no catalog file ends with a nonzero
\* exit status and does not report that nothing is due.
C13_MissingFileFatal ==
    \A i \in Done :
        (hist[i].auth /\ ~hist[i].existed) =>
            (hist[i].exit # 0 /\ hist[i].outcome # "nothing_due")

(* ------------------------------- C14 ---------------------------------- *)
\* C14: a run whose authentication fails ends with a nonzero exit status
\* before any selection: it opens the catalog neither for reading nor for
\* writing, selects nothing, never calls the sender and leaves the catalog
\* as it was.
C14_AuthFailure ==
    \A h \in Runs :
        ~h.auth =>
            /\ h.reads = 0
            /\ h.writes = 0
            /\ h.selected = 0
            /\ h.calls = 0
            /\ \A i \in Done :
                  hist[i] = h =>
                      (h.exit # 0 /\ h.outcome = "auth_failed" /\ h.after = h.before)

\* A run failed authentication although the first post of its catalog was due.
C14_Witness ==
    \E i \in Done :
        /\ ~hist[i].auth
        /\ hist[i].outcome = "auth_failed"
        /\ Len(hist[i].before) >= 1
        /\ DueUtc(hist[i].before, 1, hist[i].now)

(* ------------------------------- C15 ---------------------------------- *)
\* The records of run h that went from unsent to sent.
Flipped(h) ==
    {j \in 1..Len(h.before) :
        /\ j <= Len(h.after)
        /\ ~StoredSent(h.before[j])
        /\ StoredSent(h.after[j])}

UniqueIds(file) ==
    \A a, b \in 1..Len(file) : a # b => file[a].id # file[b].id

\* C15 as claimed: in every run at most one record goes from unsent to sent,
\* also with several records of the sent post's id.
C15_Original ==
    \A i \in Done : Cardinality(Flipped(hist[i])) <= 1

\* C15 (amended): a run changes the sent flag only of records that carry the
\* id of the post it sent, after a confirmed send: at most one record goes
\* from unsent to sent when the ids of the catalog are unique, and several
\* records can when they share the id of the sent post.
C15_FlipsById ==
    \A i \in Done :
        /\ \A j \in Flipped(hist[i]) :
              /\ hist[i].sendOk
              /\ hist[i].selected # 0
              /\ hist[i].before[j].id = hist[i].before[hist[i].selected].id
        /\ UniqueIds(hist[i].before) => Cardinality(Flipped(hist[i])) <= 1

\* A run marked two records of the same id after one send.
C15_Witness ==
    \E i \in Done :
        /\ hist[i].calls = 1
        /\ Cardinality(Flipped(hist[i])) = 2

(* ------------------------------- C16 ---------------------------------- *)
\* C16: after a run that sent a post and met no I/O error, every record is
\* still present in the same order, the records of another id are as they
\* were, and the sent post keeps its id, text and scheduled value.
C16_Frame ==
    \A i \in Done :
        LET h == hist[i]
        IN  (h.sendOk /\ h.outcome = "posted" /\ ~h.writeFault) =>
                /\ Len(h.after) = Len(h.before)
                /\ \A j \in 1..Len(h.before) :
                      /\ h.after[j].id = h.before[j].id
                      /\ h.after[j].text = h.before[j].text
                      /\ h.after[j].date_to_post = h.before[j].date_to_post
                      /\ h.before[j].id # h.before[h.selected].id =>
                            h.after[j] = h.before[j]

(* ------------------------------- C17 ---------------------------------- *)
\* C17: the text handed to the sender is the text of the post when that has
\* at most 280 characters, and otherwise its first 277 characters followed
\* by three dots; it never has more than 280 characters.
C17_Truncation ==
    \A h \in Runs :
        h.calls > 0 =>
            LET x == h.before[h.selected].text
            IN  /\ Len(h.sentText) <= 280
                /\ Len(x) <= 280 => h.sentText = x
                /\ Len(x) > 280 =>
                      /\ Len(h.sentText) = 280
                      /\ \A p \in 1..277 : h.sentText[p] = x[p]
                      /\ \A p \in 278..280 : h.sentText[p] = "."

\* A post of more than 280 characters was handed to the sender.
C17_Witness ==
    \E i \in Done :
        /\ hist[i].calls = 1
        /\ Len(hist[i].before[hist[i].selected].text) > 280

(* ------------------------------- C18 ---------------------------------- *)
\* Row j of the file is an unsent post that is eligible at t, by the rule of
\* the program or by the rule as the specification words it.
Waiting(file, j, t) == DueUtc(file, j, t) \/ SpecEligible(file[j], t)

\* C18: a run never selects a post while an unsent eligible post stands
\* before it in the file, and as long as no send succeeds no run selects a
\* post that stands after the post an earlier run selected.
C18_FileOrder ==
    /\ \A h \in Runs :
          h.selected # 0 =>
              \A j \in 1..(h.selected - 1) : ~Waiting(h.before, j, h.now)
    /\ \A i, k \in Done :
          (/\ i < k
           /\ hist[i].selected # 0
           /\ hist[k].selected # 0
           /\ \A m \in i..(k - 1) : ~hist[m].sendOk) =>
              hist[k].selected <= hist[i].selected

\* The send of the first of two due posts failed and the next run selected
\* the first again, not the second.
C18_Witness ==
    \E i \in Done :
        /\ i + 1 \in Done
        /\ Len(hist[i].before) >= 2
        /\ DueUtc(hist[i].before, 1, hist[i].now)
        /\ DueUtc(hist[i].before, 2, hist[i].now)
        /\ hist[i].selected = 1 /\ hist[i].calls = 1 /\ ~hist[i].sendOk
        /\ hist[i + 1].selected = 1 /\ hist[i + 1].calls = 1

====
